---- MODULE Spec2Model ----
(***************************************************************************)
(* A model of S3Downloader.download_directory (src/s3_downloader.py), of   *)
(* the two methods it calls, list_objects and download_file, of            *)
(* generate_download_report, and of the two callers of download_directory: *)
(* main's action selection (src/s3_downloader.py) and the example script   *)
(* (src/example_usage.py).                                                 *)
(*                                                                         *)
(* Object keys, prefixes and extensions are sequences of one-character     *)
(* strings, so that endswith, lower, slicing and lstrip are computed the   *)
(* way Python computes them.  An object record is represented by its key:  *)
(* size, last_modified and etag are never read by download_directory.      *)
(* The storage client is the environment: what it lists, and how each      *)
(* head_object / download_file / mkdir call ends, is chosen                *)
(* nondeterministically.                                                   *)
(***************************************************************************)
EXTENDS Integers, Sequences, FiniteSets, TLC

VARIABLES
    self_bucket_name, \* S3Downloader.bucket_name, set by __init__
    pc,               \* position of the download_directory call
    bucket,           \* local `bucket` of download_directory
    prefix,           \* argument `prefix`
    extensions,       \* argument `extensions`
    max_files,        \* argument `max_files`
    listOutcome,      \* how the paginated listing ended
    listing,          \* what list_objects returned
    filtered,         \* `objects` after the extension filter
    objects,          \* `objects` after the max_files cut
    i,                \* 1-based position of the for loop; 0 before the loop
    downloaded,       \* local counter
    failed,           \* local counter
    errors,           \* local list of failed keys
    attempts,         \* history: the calls of download_file, in call order
    stats,            \* the dictionary download_directory returned
    args,             \* main: the parsed command line (a fixed record for a script)
    mpc,              \* position of the caller: main's try block, or the script
    performed,        \* history: the actions main has started, in order
    help_shown,       \* main: parser.print_help() was called
    exit_status,      \* main: the process exit status (0 unless sys.exit(1))
    disk,             \* relative paths of the files completely downloaded
    report            \* what generate_download_report / the script computed

\* the variables of download_directory
engineVars == << self_bucket_name, pc, bucket, prefix, extensions, max_files,
                 listOutcome, listing, filtered, objects, i, downloaded,
                 failed, errors, attempts, stats >>

\* the variables of the callers and of the report
mainVars == << args, mpc, performed, help_shown, exit_status, disk, report >>

vars == << self_bucket_name, pc, bucket, prefix, extensions, max_files,
           listOutcome, listing, filtered, objects, i, downloaded, failed,
           errors, attempts, stats, args, mpc, performed, help_shown,
           exit_status, disk, report >>

----------------------------------------------------------------------------
(* Bounds of the model *)

\* longest listing the storage client returns
MaxLen == 3

\* largest max_files cap tried
MaxCap == 2

----------------------------------------------------------------------------
(* Inputs *)

\* Python's None for a bucket name
None == "None"

\* max_files=None
NoCap == -1

\* extensions=None
NoExtensions == [given |-> FALSE, list |-> << >>]

Ext(list) == [given |-> TRUE, list |-> list]

SEP == "/"

DotJpg == << ".", "j", "p", "g" >>
DotPng == << ".", "p", "n", "g" >>
DotJPG == << ".", "J", "P", "G" >>

EmptyPrefix == << >>
ImagesPrefix == << "i", "m", "a", "g", "e", "s", "/" >>

\* a.jpg, b.txt, c.png
KeyA == << "a" >> \o DotJpg
KeyB == << "b", ".", "t", "x", "t" >>
KeyC == << "c" >> \o DotPng
\* images/  (a zero-byte directory marker)
KeyMarker == ImagesPrefix
\* images/sub/x.png
KeySub == ImagesPrefix \o << "s", "u", "b", "/", "x" >> \o DotPng
\* images/images/y.PNG
KeyNested == ImagesPrefix \o ImagesPrefix \o << "y", ".", "P", "N", "G" >>
\* images//z.jpg
KeyDouble == ImagesPrefix \o << "/", "z" >> \o DotJpg

AllKeys == { KeyA, KeyB, KeyC, KeyMarker, KeySub, KeyNested, KeyDouble }

Buckets == { None, "my-bucket" }

Prefixes == { EmptyPrefix, ImagesPrefix }

ExtensionChoices ==
    { NoExtensions, Ext(<< >>), Ext(<< DotJpg, DotPng >>), Ext(<< DotJPG >>) }

CapChoices == { NoCap } \cup (0 .. MaxCap)

\* args.download_file / args.download_dir when the flag is absent (None);
\* like '', it is falsy
NotGiven == << >>

\* the command lines of main: every combination of the four action flags,
\* with and without --bucket
ArgChoices ==
    [ bucket : Buckets,
      list_buckets : BOOLEAN,
      list_objects : BOOLEAN,
      download_file : { NotGiven, KeyA },
      download_dir : { NotGiven, ImagesPrefix } ]

\* a script that uses the class directly has no command line
NoArgs ==
    [ bucket |-> None, list_buckets |-> FALSE, list_objects |-> FALSE,
      download_file |-> NotGiven, download_dir |-> NotGiven ]

----------------------------------------------------------------------------
(* Python string and list primitives *)

\* str.lower on one character
LowerChar(c) ==
    CASE c = "J" -> "j"
      [] c = "P" -> "p"
      [] c = "G" -> "g"
      [] c = "N" -> "n"
      [] OTHER -> c

\* str.lower
Lower(s) == [ n \in 1 .. Len(s) |-> LowerChar(s[n]) ]

\* str.startswith
StartsWith(s, p) == Len(p) <= Len(s) /\ SubSeq(s, 1, Len(p)) = p

\* str.endswith
EndsWith(s, p) ==
    Len(p) <= Len(s) /\ SubSeq(s, Len(s) - Len(p) + 1, Len(s)) = p

\* s[n:]
DropFirst(s, n) == SubSeq(s, n + 1, Len(s))

\* s[:n] for n >= 0
Take(s, n) == SubSeq(s, 1, IF n < Len(s) THEN n ELSE Len(s))

\* str.lstrip('/')
RECURSIVE LStripSep(_)
LStripSep(s) ==
    IF s # << >> /\ Head(s) = SEP THEN LStripSep(Tail(s)) ELSE s

\* a or b, on bucket names
OrElse(a, b) == IF a # None THEN a ELSE b

----------------------------------------------------------------------------
(* The storage client (environment) *)

KeysUnder(p) == { k \in AllKeys : StartsWith(k, p) }

\* The flat contents a paginated listing under prefix p can produce: keys are
\* unique within a bucket, their order is the storage client's.  MaxLen is
\* far below list_objects' max_keys default of 1000, so MaxItems never cuts.
Listings(p) ==
    { s \in UNION { [ 1 .. n -> KeysUnder(p) ] : n \in 0 .. MaxLen } :
        \A a, b \in DOMAIN s : a # b => s[a] # s[b] }

\* how paginate() ends inside list_objects
ListOutcomes == { "ok", "ClientError" }

\* how head_object + download_file end inside download_file's try block
TransferOutcomes ==
    { "ok", "NoSuchKey", "NoSuchBucket", "OtherClientError", "Exception" }

----------------------------------------------------------------------------
(* list_objects, download_file and the pieces of download_directory *)

\* list_objects with the except clause returning what was accumulated so far
ListObjectsResultKeepsPartial(outcome, contents) == contents

\* list_objects: the accumulated records, or [] when the client raised
\* ClientError
ListObjectsResult(outcome, contents) ==
    IF outcome = "ClientError" THEN << >> ELSE contents

\* the extension test without .lower() on the key
MatchesExtensionCaseSensitive(key, exts) ==
    \E n \in 1 .. Len(exts) : EndsWith(key, Lower(exts[n]))

\* any(obj['key'].lower().endswith(ext.lower()) for ext in extensions)
MatchesExtension(key, exts) ==
    \E n \in 1 .. Len(exts) : EndsWith(Lower(key), Lower(exts[n]))

\* if extensions: objects = [obj for obj in objects if any(...)]
FilterByExtensions(objs, ext) ==
    IF ext.given /\ ext.list # << >>
    THEN SelectSeq(objs, LAMBDA k : MatchesExtension(k, ext.list))
    ELSE objs

\* if max_files and len(objects) > max_files: objects = objects[:max_files]
LimitFiles(objs, cap) ==
    IF cap # NoCap /\ cap # 0 /\ Len(objs) > cap THEN Take(objs, cap) ELSE objs

\* object_key.endswith('/')
IsDirectoryMarker(key) == EndsWith(key, << SEP >>)

\* the relative path without .lstrip('/')
RelativePathNoLStrip(key, p) == DropFirst(key, Len(p))

\* object_key[len(prefix):].lstrip('/')
RelativePath(key, p) == LStripSep(DropFirst(key, Len(p)))

\* download_file's return value once the parent directory exists: True after
\* the transfer, False from either except clause
DownloadFileReturn(outcome) == outcome = "ok"

\* the dictionary of the two early returns (no 'total_files' entry)
EarlyStats(success) ==
    [ success |-> success, downloaded |-> 0, failed |-> 0, errors |-> << >> ]

\* the statistics with success derived from the downloaded count
BatchStatsSuccessIfAnyDownloaded(nDownloaded, nFailed, errs, objs) ==
    [ success |-> nDownloaded > 0, downloaded |-> nDownloaded,
      failed |-> nFailed, errors |-> errs, total_files |-> Len(objs) ]

\* the dictionary built after the loop
BatchStats(nDownloaded, nFailed, errs, objs) ==
    [ success |-> nFailed = 0, downloaded |-> nDownloaded, failed |-> nFailed,
      errors |-> errs, total_files |-> Len(objs) ]

NoStats == [ returned |-> FALSE ]

\* dict.get(key, default)
GetOr(d, key, default) == IF key \in DOMAIN d THEN d[key] ELSE default

\* max(a, b)
PyMax(a, b) == IF a >= b THEN a ELSE b

\* f"{n / d * 100:.1f}" for d > 0, as tenths of a percent: the quotient
\* rounded to the nearest tenth, an exact tie going to the even tenth
RateTenths(n, d) ==
    LET q == (n * 1000) \div d
        r == (n * 1000) % d
    IN  IF 2 * r > d \/ (2 * r = d /\ q % 2 = 1) THEN q + 1 ELSE q

\* the formatted quotient, or the ZeroDivisionError Python raises for d = 0
FormatRate(n, d) ==
    IF d = 0
    THEN [ error |-> "ZeroDivisionError", whole |-> 0, tenth |-> 0 ]
    ELSE [ error |-> "none", whole |-> RateTenths(n, d) \div 10,
           tenth |-> RateTenths(n, d) % 10 ]

\* the divisor of the report without the max(..., 1) guard
ReportDenominatorUnguarded(st) == GetOr(st, "total_files", 1)

\* max(stats.get('total_files', 1), 1)
ReportDenominator(st) == PyMax(GetOr(st, "total_files", 1), 1)

\* generate_download_report: the figures of the text block
GenerateDownloadReport(st) ==
    [ rate |-> FormatRate(GetOr(st, "downloaded", 0), ReportDenominator(st)),
      total_files |-> GetOr(st, "total_files", 0),
      downloaded |-> GetOr(st, "downloaded", 0),
      failed |-> GetOr(st, "failed", 0),
      failed_files |-> GetOr(st, "errors", << >>),
      by |-> "generate_download_report" ]

\* the example script's own summary lines; it reads stats['total_files']
\* directly, only called when that entry exists
ScriptSummary(st) ==
    [ rate |-> FormatRate(st.downloaded, PyMax(st.total_files, 1)),
      total_files |-> st.total_files,
      downloaded |-> st.downloaded,
      failed |-> st.failed,
      failed_files |-> << >>,
      by |-> "script" ]

NoReport ==
    [ rate |-> [ error |-> "none", whole |-> 0, tenth |-> 0 ],
      total_files |-> 0, downloaded |-> 0, failed |-> 0,
      failed_files |-> << >>, by |-> "nobody" ]

\* main with KeyboardInterrupt handled like any other exception
MainExitStatusInterruptAsError(exc) == 1

\* the exit status main's except clauses give: KeyboardInterrupt is logged
\* and main returns, any other Exception ends in sys.exit(1)
MainExitStatus(exc) == IF exc = "KeyboardInterrupt" THEN 0 ELSE 1

\* the positions of main's try block, in order
MainSteps ==
    << "if_list_buckets", "if_list_objects", "if_download_file",
       "if_download_dir", "if_none", "exited" >>

\* main with the `return` at the end of an action missing: control goes on
\* to the next if
NextAfterFallsThrough(step) ==
    MainSteps[(CHOOSE n \in 1 .. Len(MainSteps) : MainSteps[n] = step) + 1]

\* where main continues after it has carried out the action of `step`:
\* each action ends in `return`
NextAfter(step) == "exited"

\* not any([args.list_buckets, args.list_objects, args.download_file,
\*          args.download_dir])
NoActionSelected(a) ==
    ~(a.list_buckets \/ a.list_objects \/ a.download_file # NotGiven
        \/ a.download_dir # NotGiven)

\* who may call download_directory, and with which prefix and bucket: a
\* script with anything, main with args.download_dir and args.bucket
CallAllowed(p, b) ==
    \/ mpc = "script"
    \/ mpc = "in_download_dir" /\ p = args.download_dir /\ b = args.bucket

----------------------------------------------------------------------------
(* State machine *)

Init ==
    /\ \/ /\ mpc = "script"
          /\ args = NoArgs
          /\ self_bucket_name \in Buckets
       \/ /\ mpc = "if_list_buckets"
          /\ args \in ArgChoices
          /\ self_bucket_name = args.bucket
    /\ performed = << >>
    /\ help_shown = FALSE
    /\ exit_status = 0
    /\ disk = { }
    /\ report = NoReport
    /\ pc = "idle"
    /\ bucket = None
    /\ prefix = EmptyPrefix
    /\ extensions = NoExtensions
    /\ max_files = NoCap
    /\ listOutcome = "none"
    /\ listing = << >>
    /\ filtered = << >>
    /\ objects = << >>
    /\ i = 0
    /\ downloaded = 0
    /\ failed = 0
    /\ errors = << >>
    /\ attempts = << >>
    /\ stats = NoStats

\* download_directory is called; no bucket name: the first early return
CallWithoutBucket ==
    /\ pc = "idle"
    /\ \E p \in Prefixes, e \in ExtensionChoices, b \in Buckets, m \in CapChoices :
        /\ CallAllowed(p, b)
        /\ OrElse(b, self_bucket_name) = None
        /\ prefix' = p
        /\ extensions' = e
        /\ max_files' = m
        /\ bucket' = OrElse(b, self_bucket_name)
    /\ stats' = EarlyStats(FALSE)
    /\ pc' = "returned"
    /\ UNCHANGED << self_bucket_name, listOutcome, listing, filtered, objects,
                    i, downloaded, failed, errors, attempts >>
    /\ UNCHANGED mainVars

\* download_directory is called with a bucket name and goes on to list
CallWithBucket ==
    /\ pc = "idle"
    /\ \E p \in Prefixes, e \in ExtensionChoices, b \in Buckets, m \in CapChoices :
        /\ CallAllowed(p, b)
        /\ OrElse(b, self_bucket_name) # None
        /\ prefix' = p
        /\ extensions' = e
        /\ max_files' = m
        /\ bucket' = OrElse(b, self_bucket_name)
    /\ pc' = "list"
    /\ UNCHANGED << self_bucket_name, listOutcome, listing, filtered, objects,
                    i, downloaded, failed, errors, attempts, stats >>
    /\ UNCHANGED mainVars

\* list_objects returns nothing (an empty listing, or ClientError caught):
\* the second early return
ListEmpty ==
    /\ pc = "list"
    /\ \E o \in ListOutcomes, c \in Listings(prefix) :
        /\ ListObjectsResult(o, c) = << >>
        /\ listOutcome' = o
        /\ listing' = ListObjectsResult(o, c)
    /\ stats' = EarlyStats(TRUE)
    /\ pc' = "returned"
    /\ UNCHANGED << self_bucket_name, bucket, prefix, extensions, max_files,
                    filtered, objects, i, downloaded, failed, errors, attempts >>
    /\ UNCHANGED mainVars

\* list_objects returns records: filter, cut, reset the counters, enter the loop
ListAndFilter ==
    /\ pc = "list"
    /\ \E o \in ListOutcomes, c \in Listings(prefix) :
        /\ ListObjectsResult(o, c) # << >>
        /\ listOutcome' = o
        /\ listing' = ListObjectsResult(o, c)
        /\ filtered' = FilterByExtensions(ListObjectsResult(o, c), extensions)
        /\ objects' = LimitFiles(
               FilterByExtensions(ListObjectsResult(o, c), extensions), max_files)
    /\ downloaded' = 0
    /\ failed' = 0
    /\ errors' = << >>
    /\ i' = 1
    /\ pc' = "loop"
    /\ UNCHANGED << self_bucket_name, bucket, prefix, extensions, max_files,
                    attempts, stats >>
    /\ UNCHANGED mainVars

\* the storage client raises something that is not a ClientError while
\* listing: list_objects has no clause for it, it leaves download_directory
ListRaises ==
    /\ pc = "list"
    /\ listOutcome' = "Exception"
    /\ pc' = "raised"
    /\ UNCHANGED << self_bucket_name, bucket, prefix, extensions, max_files,
                    listing, filtered, objects, i, downloaded, failed, errors,
                    attempts, stats >>
    /\ UNCHANGED mainVars

\* loop body on a directory marker: continue
SkipMarker ==
    /\ pc = "loop"
    /\ i <= Len(objects)
    /\ IsDirectoryMarker(objects[i])
    /\ i' = i + 1
    /\ UNCHANGED << self_bucket_name, pc, bucket, prefix, extensions,
                    max_files, listOutcome, listing, filtered, objects,
                    downloaded, failed, errors, attempts, stats >>
    /\ UNCHANGED mainVars

\* loop body on a file: download_file is called, the parent directory of the
\* destination is created, the transfer starts
BeginDownload ==
    /\ pc = "loop"
    /\ i <= Len(objects)
    /\ ~IsDirectoryMarker(objects[i])
    /\ bucket # None
    /\ attempts' = Append(attempts,
           [ key |-> objects[i],
             relative_path |-> RelativePath(objects[i], prefix),
             result |-> "pending" ])
    /\ pc' = "transfer"
    /\ UNCHANGED << self_bucket_name, bucket, prefix, extensions, max_files,
                    listOutcome, listing, filtered, objects, i, downloaded,
                    failed, errors, stats >>
    /\ UNCHANGED mainVars

\* loop body on a file: download_file is called and local_file.parent.mkdir,
\* which is outside the try block, raises (OSError): the exception leaves
\* download_file and download_directory
MkdirRaises ==
    /\ pc = "loop"
    /\ i <= Len(objects)
    /\ ~IsDirectoryMarker(objects[i])
    /\ bucket # None
    /\ attempts' = Append(attempts,
           [ key |-> objects[i],
             relative_path |-> RelativePath(objects[i], prefix),
             result |-> "raised" ])
    /\ pc' = "raised"
    /\ UNCHANGED << self_bucket_name, bucket, prefix, extensions, max_files,
                    listOutcome, listing, filtered, objects, i, downloaded,
                    failed, errors, stats >>
    /\ UNCHANGED mainVars

\* download_file returns; the loop body counts the outcome
FinishDownload ==
    /\ pc = "transfer"
    /\ \E o \in TransferOutcomes :
        /\ attempts' = [ attempts EXCEPT ![Len(attempts)].result =
               IF DownloadFileReturn(o) THEN "True" ELSE "False" ]
        /\ IF DownloadFileReturn(o)
           THEN /\ downloaded' = downloaded + 1
                /\ disk' = disk \cup { attempts[Len(attempts)].relative_path }
                /\ UNCHANGED << failed, errors >>
           ELSE /\ failed' = failed + 1
                /\ errors' = Append(errors, objects[i])
                /\ UNCHANGED << downloaded, disk >>
    /\ i' = i + 1
    /\ pc' = "loop"
    /\ UNCHANGED << self_bucket_name, bucket, prefix, extensions, max_files,
                    listOutcome, listing, filtered, objects, stats >>
    /\ UNCHANGED << args, mpc, performed, help_shown, exit_status, report >>

\* the loop is exhausted: build and return the statistics
ReturnStats ==
    /\ pc = "loop"
    /\ i > Len(objects)
    /\ stats' = BatchStats(downloaded, failed, errors, objects)
    /\ pc' = "returned"
    /\ UNCHANGED << self_bucket_name, bucket, prefix, extensions, max_files,
                    listOutcome, listing, filtered, objects, i, downloaded,
                    failed, errors, attempts >>
    /\ UNCHANGED mainVars

----------------------------------------------------------------------------
(* main's try block: one action per if statement *)

\* if args.list_buckets: list, print, return
MainListBuckets ==
    /\ mpc = "if_list_buckets"
    /\ IF args.list_buckets
       THEN /\ performed' = Append(performed, "list_buckets")
            /\ \E o \in { "ok", "ClientError", "Exception" } :
                IF o = "Exception"
                THEN /\ exit_status' = MainExitStatus(o)
                     /\ mpc' = "exited"
                ELSE /\ mpc' = NextAfter("if_list_buckets")
                     /\ UNCHANGED exit_status
       ELSE /\ mpc' = "if_list_objects"
            /\ UNCHANGED << performed, exit_status >>
    /\ UNCHANGED << args, help_shown, disk, report >>
    /\ UNCHANGED engineVars

\* if args.list_objects: without a bucket log and return, else list, print,
\* return
MainListObjects ==
    /\ mpc = "if_list_objects"
    /\ IF args.list_objects
       THEN IF args.bucket = None
            THEN /\ mpc' = "exited"
                 /\ UNCHANGED << performed, exit_status >>
            ELSE /\ performed' = Append(performed, "list_objects")
                 /\ \E o \in { "ok", "ClientError", "Exception" } :
                     IF o = "Exception"
                     THEN /\ exit_status' = MainExitStatus(o)
                          /\ mpc' = "exited"
                     ELSE /\ mpc' = NextAfter("if_list_objects")
                          /\ UNCHANGED exit_status
       ELSE /\ mpc' = "if_download_file"
            /\ UNCHANGED << performed, exit_status >>
    /\ UNCHANGED << args, help_shown, disk, report >>
    /\ UNCHANGED engineVars

\* if args.download_file: without a bucket log and return, else download,
\* print the outcome, return; an OSError from mkdir reaches except Exception
MainDownloadFile ==
    /\ mpc = "if_download_file"
    /\ IF args.download_file # NotGiven
       THEN IF args.bucket = None
            THEN /\ mpc' = "exited"
                 /\ UNCHANGED << performed, exit_status >>
            ELSE /\ performed' = Append(performed, "download_file")
                 /\ \E o \in TransferOutcomes \cup { "OSError" } :
                     IF o = "OSError"
                     THEN /\ exit_status' = MainExitStatus(o)
                          /\ mpc' = "exited"
                     ELSE /\ mpc' = NextAfter("if_download_file")
                          /\ UNCHANGED exit_status
       ELSE /\ mpc' = "if_download_dir"
            /\ UNCHANGED << performed, exit_status >>
    /\ UNCHANGED << args, help_shown, disk, report >>
    /\ UNCHANGED engineVars

\* if args.download_dir: without a bucket log and return, else call
\* download_directory
MainDownloadDir ==
    /\ mpc = "if_download_dir"
    /\ IF args.download_dir # NotGiven
       THEN IF args.bucket = None
            THEN /\ mpc' = "exited"
                 /\ UNCHANGED performed
            ELSE /\ performed' = Append(performed, "download_dir")
                 /\ mpc' = "in_download_dir"
       ELSE /\ mpc' = "if_none"
            /\ UNCHANGED performed
    /\ UNCHANGED << args, help_shown, exit_status, disk, report >>
    /\ UNCHANGED engineVars

\* download_directory returned to main: generate the report, print it, save
\* it under the download root, return
MainReport ==
    /\ mpc = "in_download_dir"
    /\ pc = "returned"
    /\ report' = GenerateDownloadReport(stats)
    /\ \E w \in { "ok", "OSError" } :
        IF GenerateDownloadReport(stats).rate.error # "none" \/ w = "OSError"
        THEN /\ exit_status' = MainExitStatus("Exception")
             /\ mpc' = "exited"
        ELSE /\ mpc' = NextAfter("if_download_dir")
             /\ UNCHANGED exit_status
    /\ UNCHANGED << args, performed, help_shown, disk >>
    /\ UNCHANGED engineVars

\* an exception left download_directory: except Exception, sys.exit(1)
MainCatchException ==
    /\ mpc = "in_download_dir"
    /\ pc = "raised"
    /\ exit_status' = MainExitStatus("Exception")
    /\ mpc' = "exited"
    /\ UNCHANGED << args, performed, help_shown, disk, report >>
    /\ UNCHANGED engineVars

\* the user interrupts the batch run: KeyboardInterrupt is raised wherever
\* download_directory is; no except clause of download_file or list_objects
\* takes it (it is no Exception), so it leaves download_directory
Interrupt ==
    /\ mpc = "in_download_dir"
    /\ pc \in { "list", "loop", "transfer" }
    /\ attempts' =
        IF pc = "transfer"
        THEN [ attempts EXCEPT ![Len(attempts)].result = "interrupted" ]
        ELSE attempts
    /\ pc' = "interrupted"
    /\ UNCHANGED << self_bucket_name, bucket, prefix, extensions, max_files,
                    listOutcome, listing, filtered, objects, i, downloaded,
                    failed, errors, stats >>
    /\ UNCHANGED mainVars

\* except KeyboardInterrupt: log, and main returns
MainCatchInterrupt ==
    /\ mpc = "in_download_dir"
    /\ pc = "interrupted"
    /\ exit_status' = MainExitStatus("KeyboardInterrupt")
    /\ mpc' = "exited"
    /\ UNCHANGED << args, performed, help_shown, disk, report >>
    /\ UNCHANGED engineVars

\* if not any([...]): parser.print_help(); the try block ends
MainNoAction ==
    /\ mpc = "if_none"
    /\ help_shown' = NoActionSelected(args)
    /\ mpc' = "exited"
    /\ UNCHANGED << args, performed, exit_status, disk, report >>
    /\ UNCHANGED engineVars

----------------------------------------------------------------------------
(* the example script after its download_directory call *)

\* the summary lines: stats['total_files'] raises KeyError on the statistics
\* of an early return
ScriptPrintSummary ==
    /\ mpc = "script"
    /\ pc = "returned"
    /\ IF "total_files" \in DOMAIN stats
       THEN /\ report' = ScriptSummary(stats)
            /\ mpc' = "script_printed"
       ELSE /\ mpc' = "script_raised"
            /\ UNCHANGED report
    /\ UNCHANGED << args, performed, help_shown, exit_status, disk >>
    /\ UNCHANGED engineVars

\* report = downloader.generate_download_report(stats)
ScriptReport ==
    /\ mpc = "script_printed"
    /\ report' = GenerateDownloadReport(stats)
    /\ mpc' = "script_reported"
    /\ UNCHANGED << args, performed, help_shown, exit_status, disk >>
    /\ UNCHANGED engineVars

Next ==
    \/ MainListBuckets
    \/ MainListObjects
    \/ MainDownloadFile
    \/ MainDownloadDir
    \/ MainReport
    \/ MainCatchException
    \/ Interrupt
    \/ MainCatchInterrupt
    \/ MainNoAction
    \/ ScriptPrintSummary
    \/ ScriptReport
    \/ CallWithoutBucket
    \/ CallWithBucket
    \/ ListEmpty
    \/ ListAndFilter
    \/ ListRaises
    \/ SkipMarker
    \/ BeginDownload
    \/ MkdirRaises
    \/ FinishDownload
    \/ ReturnStats

Spec == Init /\ [][Next]_vars

----------------------------------------------------------------------------
(* Vocabulary of the properties, stated without the operators above *)

LoopReached == i > 0

Finished == pc \in { "returned", "raised" }

Returned == pc = "returned"

\* the batch ran to its end and built its statistics
BatchReturned == pc = "returned" /\ i > 0

EndsInSeparator(k) == k # << >> /\ k[Len(k)] = "/"

\* the records of objs that are no directory markers, in order
Eligible(objs) == SelectSeq(objs, LAMBDA k : ~EndsInSeparator(k))

AttemptKeys == [ n \in 1 .. Len(attempts) |-> attempts[n].key ]

\* the keys whose download_file call returned False, in call order
FalseAttempts == SelectSeq(attempts, LAMBDA a : a.result = "False")

FailedKeys == [ n \in 1 .. Len(FalseAttempts) |-> FalseAttempts[n].key ]

Min(a, b) == IF a <= b THEN a ELSE b

CasePairs == { << "j", "J" >>, << "p", "P" >>, << "g", "G" >>, << "n", "N" >> }

SameLetter(a, b) == a = b \/ << a, b >> \in CasePairs \/ << b, a >> \in CasePairs

\* k ends in e, letter case ignored
EndsInIgnoringCase(k, e) ==
    /\ Len(e) <= Len(k)
    /\ \A n \in 1 .. Len(e) : SameLetter(k[Len(k) - Len(e) + n], e[n])

EndsInSomeOf(k, E) == \E n \in 1 .. Len(E) : EndsInIgnoringCase(k, E[n])

\* position of k in the sequence s of distinct elements (0 when absent)
PositionIn(s, k) ==
    IF \E n \in 1 .. Len(s) : s[n] = k
    THEN CHOOSE n \in 1 .. Len(s) : s[n] = k
    ELSE 0

Separators(n) == [ m \in 1 .. n |-> "/" ]

----------------------------------------------------------------------------
(* Properties *)

\* C1: the statistics returned after a run that reached the download loop
\* satisfy downloaded + failed = total_files.
C1_DownloadedPlusFailedIsTotal ==
    BatchReturned => stats.downloaded + stats.failed = stats.total_files

\* C2: every record that survives filtering and truncation and is no
\* directory marker is passed to download_file exactly once, in listing
\* order, each attempt finished before the next begins, whatever the outcome
\* of the earlier attempts.
C2_EveryEligibleAttemptedOnce ==
    /\ \A n \in 1 .. Len(attempts) - 1 : attempts[n].result \in { "True", "False" }
    /\ LoopReached => AttemptKeys = SubSeq(Eligible(objects), 1, Len(attempts))
    /\ (LoopReached /\ Finished) => AttemptKeys = Eligible(objects)

\* C3: whatever goes wrong while handling one object, download_file returns
\* False instead of raising and the batch goes on; a run is only aborted
\* before any object is handled.
C3_ObjectErrorsNeverAbort ==
    /\ \A n \in 1 .. Len(attempts) : attempts[n].result # "raised"
    /\ pc = "raised" => attempts = << >>

\* C4: directory markers are never passed to download_file and are excluded
\* from total_files, downloaded and failed.
C4_MarkersExcludedFromAllCounts ==
    /\ \A n \in 1 .. Len(attempts) : ~EndsInSeparator(attempts[n].key)
    /\ BatchReturned =>
        /\ stats.total_files = Len(Eligible(objects))
        /\ stats.downloaded + stats.failed = Len(Eligible(objects))
        /\ \A n \in 1 .. Len(stats.errors) : ~EndsInSeparator(stats.errors[n])

\* C5 as claimed: on every return path, success is true iff failed is zero.
C5_SuccessIffNoFailures ==
    Returned => (stats.success <=> stats.failed = 0)

\* C5 as amended: on the return paths that had a bucket name (empty listing,
\* completed batch) success is true iff failed is zero; the missing-bucket
\* return has success false and failed zero.
C5_SuccessIffNoFailuresGivenBucket ==
    Returned =>
        /\ bucket # None => (stats.success <=> stats.failed = 0)
        /\ bucket = None => (~stats.success /\ stats.failed = 0)

C5_Witness ==
    BatchReturned /\ bucket # None /\ stats.failed > 0 /\ ~stats.success
        /\ stats.downloaded > 0

\* C6: a key whose download_file call fails is appended to errors, failed
\* goes up by one, success is false, all remaining keys are still attempted,
\* and at the end errors is the sequence of failed keys in attempt order.
C6_FailureRecordedAndBatchContinues ==
    /\ LoopReached => (errors = FailedKeys /\ failed = Len(errors))
    /\ (BatchReturned /\ FailedKeys # << >>) =>
        /\ ~stats.success
        /\ stats.errors = FailedKeys
        /\ stats.failed = Len(stats.errors)
    /\ (LoopReached /\ Finished /\ FailedKeys # << >>) =>
        AttemptKeys = Eligible(objects)

\* C7: with a cap M >= 0 the iterated list is the first min(len(L), M)
\* records of the filtered listing L.
C7_TruncatesToMin ==
    (LoopReached /\ max_files # NoCap) =>
        /\ Len(objects) = Min(Len(filtered), max_files)
        /\ \A n \in 1 .. Len(objects) : objects[n] = filtered[n]

\* C8: the extension filter keeps, in listing order, exactly the records
\* whose key ends case-insensitively in some element of E; with E empty or
\* absent it returns the listing unchanged; a.jpg, b.txt, c.png with
\* E = [.jpg, .png] give a.jpg, c.png and total_files = 2.
C8_FilterKeepsExactlyMatches ==
    LoopReached =>
        /\ (~extensions.given \/ extensions.list = << >>) => filtered = listing
        /\ (extensions.given /\ extensions.list # << >>) =>
            /\ \A n \in 1 .. Len(filtered) :
                /\ PositionIn(listing, filtered[n]) > 0
                /\ EndsInSomeOf(filtered[n], extensions.list)
            /\ \A n \in 1 .. Len(listing) :
                EndsInSomeOf(listing[n], extensions.list) =>
                    PositionIn(filtered, listing[n]) > 0
            /\ \A a, b \in 1 .. Len(filtered) :
                a < b => PositionIn(listing, filtered[a]) < PositionIn(listing, filtered[b])
        /\ ( /\ listing = << KeyA, KeyB, KeyC >>
             /\ extensions = Ext(<< DotJpg, DotPng >>) ) =>
            /\ filtered = << KeyA, KeyC >>
            /\ (Returned /\ max_files = NoCap) => stats.total_files = 2

C8_Witness ==
    /\ Returned
    /\ listing = << KeyNested, KeyB, KeyDouble >>
    /\ extensions = Ext(<< DotJpg, DotPng >>)
    /\ filtered = << KeyNested, KeyDouble >>

\* C9 as claimed: the relative destination path never starts with a path
\* separator and never has the prefix as its leading component.
C9_RelativePathDropsPrefix ==
    \A n \in 1 .. Len(attempts) :
        /\ ~StartsWith(attempts[n].relative_path, << "/" >>)
        /\ prefix # << >> => ~StartsWith(attempts[n].relative_path, prefix)

\* C9 as amended: the relative destination path never starts with a path
\* separator and is the key with the prefix taken off its left once and the
\* separators that follow removed (so a key that repeats the prefix keeps
\* the second copy); images/ and images/sub/x.png give sub/x.png.
C9_RelativePathStripsPrefixOnce ==
    \A n \in 1 .. Len(attempts) :
        /\ ~StartsWith(attempts[n].relative_path, << "/" >>)
        /\ \E m \in 0 .. Len(attempts[n].key) :
            attempts[n].key = prefix \o Separators(m) \o attempts[n].relative_path
        /\ (prefix = ImagesPrefix /\ attempts[n].key = KeySub) =>
            attempts[n].relative_path = << "s", "u", "b", "/", "x", ".", "p", "n", "g" >>

C9_Witness ==
    /\ prefix = ImagesPrefix
    /\ \E n \in 1 .. Len(attempts) :
        /\ attempts[n].key = KeyDouble
        /\ attempts[n].relative_path = << "z", ".", "j", "p", "g" >>
    /\ \E n \in 1 .. Len(attempts) :
        /\ attempts[n].key = KeySub
        /\ attempts[n].relative_path = << "s", "u", "b", "/", "x", ".", "p", "n", "g" >>

\* C10: when the listing is empty or the storage client fails while listing
\* with a ClientError, list_objects returns an empty collection without
\* raising, and download_directory attempts no download and returns zero
\* counts, no errors and success = true.
C10_EmptyListingIsSuccess ==
    /\ listOutcome = "ClientError" => (listing = << >> /\ pc # "raised")
    /\ (listOutcome \in ListOutcomes /\ listing = << >>) =>
        /\ Returned
        /\ attempts = << >>
        /\ stats.downloaded = 0
        /\ stats.failed = 0
        /\ stats.errors = << >>
        /\ stats.success

C10_Witness ==
    Returned /\ listOutcome = "ClientError" /\ stats.success /\ attempts = << >>

\* the destinations of the download_file calls that returned True
CompletedPaths ==
    { attempts[n].relative_path :
        n \in { m \in 1 .. Len(attempts) : attempts[m].result = "True" } }

Interrupted == pc = "interrupted"

MainExited == mpc = "exited"

\* C11: a KeyboardInterrupt during a batch run stops all further download
\* attempts, main returns with exit status 0, and the files of the downloads
\* completed before the interrupt stay in place.
C11_InterruptStopsBatchAndExitsCleanly ==
    /\ [](Interrupted => (exit_status = 0 /\ disk = CompletedPaths))
    /\ [][Interrupted =>
            /\ attempts' = attempts
            /\ disk' = disk
            /\ pc' = "interrupted"
            /\ mpc' = "exited"
            /\ exit_status' = 0]_vars

C11_Witness ==
    /\ Interrupted
    /\ MainExited
    /\ exit_status = 0
    /\ disk # { }
    /\ Len(attempts) < Len(Eligible(objects))

\* none of --list-buckets, --list-objects, --download-file, --download-dir
NoActionFlag ==
    /\ ~args.list_buckets
    /\ ~args.list_objects
    /\ args.download_file = << >>
    /\ args.download_dir = << >>

\* C12: for every combination of the four action flags main performs at
\* most one action, and with none of them it shows the usage help and exits
\* with status 0.
C12_AtMostOneActionElseHelp ==
    /\ Len(performed) <= 1
    /\ help_shown => (NoActionFlag /\ performed = << >>)
    /\ (MainExited /\ NoActionFlag) => (help_shown /\ exit_status = 0)

C12_Witness ==
    /\ MainExited
    /\ args.list_buckets
    /\ args.list_objects
    /\ args.download_file # << >>
    /\ args.download_dir # << >>
    /\ args.bucket # None
    /\ performed = << "list_buckets" >>
    /\ exit_status = 0

ReportGenerated == report.by = "generate_download_report"

\* the total_files of the statistics, 0 when they carry no such entry
TotalFilesOf(st) == IF "total_files" \in DOMAIN st THEN st.total_files ELSE 0

Abs(x) == IF x < 0 THEN 0 - x ELSE x

\* C13: generate_download_report reports downloaded / max(total_files, 1) as
\* a percentage with one decimal; for statistics with total_files = 0, or
\* without a total_files entry, the rate is exactly 0.0% and no division
\* error occurs.
C13_ReportRateGuardsZeroTotal ==
    ReportGenerated =>
        LET den == IF TotalFilesOf(stats) >= 1 THEN TotalFilesOf(stats) ELSE 1
            tenths == report.rate.whole * 10 + report.rate.tenth
        IN  /\ report.rate.error = "none"
            /\ 2 * Abs(tenths * den - stats.downloaded * 1000) <= den
            /\ TotalFilesOf(stats) = 0 =>
                (report.rate.whole = 0 /\ report.rate.tenth = 0)

C13_Witness ==
    /\ ReportGenerated
    /\ "total_files" \in DOMAIN stats
    /\ stats.total_files = 0
    /\ listing # << >>
    /\ report.rate = [ error |-> "none", whole |-> 0, tenth |-> 0 ]

====
